---- MODULE Spec2Model ----
(***************************************************************************)
(* Model of package signer (OAuth 1.0a request signing for LTI).          *)
(*                                                                         *)
(* Go strings are sequences of bytes (integers 0..255).  A Go map is a    *)
(* record [isNil, kv] whose kv is a function from keys to values.         *)
(* crypto/sha1 and crypto/hmac are represented by a deterministic 20-byte *)
(* stand-in digest; encoding/base64, strconv.FormatInt, sort.Strings and  *)
(* the escaping code are computed byte for byte.                          *)
(***************************************************************************)
EXTENDS Integers, Sequences, FiniteSets, TLC

VARIABLES Form, call, ret, ncalls, sent

vars == <<Form, call, ret, ncalls, sent>>

\* ------------------------------------------------------------------ bounds

\* longest byte string handed to escape in SpecEscape
MaxLen == 2

\* largest number of entries of a parameter map in SpecParams
MaxKeys == 2

\* map iteration orders tried per range loop: rotations 0..MaxOrder
MaxOrder == 2

\* signing calls made on the caller's shared parameter map in Spec
MaxCalls == 2

\* --------------------------------------------------------- evaluation order

\* F(a) and F(a, b) with the arguments evaluated once, before F is applied.
\* They change no value: TLC evaluates a definition's argument anew at each of
\* its uses unless the argument is bound to its value first.
Strict1(F(_), a) == CHOOSE v \in { F(x) : x \in {a} } : TRUE

Strict2(F(_, _), a, b) == CHOOSE v \in { F(x, y) : x \in {a}, y \in {b} } : TRUE

\* ------------------------------------------------------------ string literals

S_POST == <<80, 79, 83, 84>>                                     \* "POST"
S_GET == <<71, 69, 84>>                                          \* "GET"
S_BadMethod == <<66, 32, 68>>                                    \* "B D"
S_Amp == <<38>>                                                  \* "&"
S_Eq == <<61>>                                                   \* "="
S_Comma == <<44>>                                                \* ","
S_Quote == <<34>>                                                \* `"`
S_Empty == SubSeq(<<0>>, 1, 0)                                   \* ""
K_version == <<111, 97, 117, 116, 104, 95, 118, 101, 114, 115, 105, 111, 110>>
K_nonce == <<111, 97, 117, 116, 104, 95, 110, 111, 110, 99, 101>>
K_timestamp == <<111, 97, 117, 116, 104, 95, 116, 105, 109, 101, 115, 116, 97, 109, 112>>
K_consumer_key == <<111, 97, 117, 116, 104, 95, 99, 111, 110, 115, 117, 109, 101, 114, 95, 107, 101, 121>>
K_signature_method == <<111, 97, 117, 116, 104, 95, 115, 105, 103, 110, 97, 116, 117, 114, 101, 95, 109, 101, 116, 104, 111, 100>>
K_body_hash == <<111, 97, 117, 116, 104, 95, 98, 111, 100, 121, 95, 104, 97, 115, 104>>
K_signature == <<111, 97, 117, 116, 104, 95, 115, 105, 103, 110, 97, 116, 117, 114, 101>>
S_1_0 == <<49, 46, 48>>                                          \* "1.0"
S_HMAC_SHA1 == <<72, 77, 65, 67, 45, 83, 72, 65, 49>>            \* "HMAC-SHA1"
S_Realm == <<79, 65, 117, 116, 104, 32, 114, 101, 97, 108, 109, 61, 34, 34>>  \* `OAuth realm=""`
HexDigits == <<48, 49, 50, 51, 52, 53, 54, 55, 56, 57, 65, 66, 67, 68, 69, 70>>  \* "0123456789ABCDEF"
encodeStd == <<65, 66, 67, 68, 69, 70, 71, 72, 73, 74, 75, 76, 77, 78, 79, 80, 81, 82, 83, 84, 85, 86, 87, 88, 89, 90, 97, 98, 99, 100, 101, 102, 103, 104, 105, 106, 107, 108, 109, 110, 111, 112, 113, 114, 115, 116, 117, 118, 119, 120, 121, 122, 48, 49, 50, 51, 52, 53, 54, 55, 56, 57, 43, 47>>

\* ------------------------------------------------------------------ escaping

\* isEscapable with '~' left out of the unreserved set (the RFC 2396 set)
isEscapable_noTilde(b) ==
  ~( (65 <= b /\ b <= 90) \/ (97 <= b /\ b <= 122) \/ (48 <= b /\ b <= 57)
     \/ b = 45 \/ b = 46 \/ b = 95 )

\* isEscapable: every byte outside A-Z a-z 0-9 - . _ ~
isEscapable(b) ==
  ~( (65 <= b /\ b <= 90) \/ (97 <= b /\ b <= 122) \/ (48 <= b /\ b <= 57)
     \/ b = 45 \/ b = 46 \/ b = 95 \/ b = 126 )

\* what the loop of escape appends for the byte c
escapeByte(c) ==
  IF isEscapable(c)
    THEN <<37, HexDigits[(c \div 16) + 1], HexDigits[(c % 16) + 1]>>
    ELSE <<c>>

\* the loop of escape over the bytes lo..hi of s, in order; it only appends, so
\* the output of a range is the output of its halves, one after the other
RECURSIVE escapeLoop(_, _, _)
escapeLoop(s, lo, hi) ==
  IF lo > hi THEN S_Empty
  ELSE IF lo = hi THEN escapeByte(s[lo])
  ELSE CHOOSE t \in { escapeLoop(s, lo, mid) \o escapeLoop(s, mid + 1, hi) :
                        mid \in { (lo + hi) \div 2 } } : TRUE

escapeBytes(s) == escapeLoop(s, 1, Len(s))

escape(s) == Strict1(escapeBytes, s)

\* ------------------------------------------------------- canonical params

\* Go's string order (sort.Strings): byte-wise lexicographic, a proper prefix first
RECURSIVE StrLess(_, _)
StrLess(a, b) ==
  IF Len(b) = 0 THEN FALSE
  ELSE IF Len(a) = 0 THEN TRUE
  ELSE IF a[1] < b[1] THEN TRUE
  ELSE IF a[1] > b[1] THEN FALSE
  ELSE StrLess(Tail(a), Tail(b))

\* insertion of x into an ascending sequence
RECURSIVE insertSorted(_, _)
insertSorted(x, sorted) ==
  IF Len(sorted) = 0 THEN <<x>>
  ELSE IF StrLess(x, Head(sorted)) THEN <<x>> \o sorted
  ELSE <<Head(sorted)>> \o insertSorted(x, Tail(sorted))

\* sort.Strings
RECURSIVE sortStrings(_)
sortStrings(keys) ==
  IF Len(keys) = 0 THEN keys
  ELSE insertSorted(Head(keys), sortStrings(Tail(keys)))

RECURSIVE SetToSeq(_)
SetToSeq(S) ==
  IF S = {} THEN <<>>
  ELSE LET x == CHOOSE y \in S : TRUE
       IN <<x>> \o SetToSeq(S \ {x})

\* "for k := range params": the keys in the r-th of the iteration orders modelled
\* (Go leaves the order unspecified); a nil map ranges over nothing
mapRange(params, r) ==
  LET base == SetToSeq(DOMAIN params.kv)
      n == Len(base)
  IN IF n = 0 THEN base
     ELSE [i \in 1..n |-> base[((i - 1 + r) % n) + 1]]

\* sortKeys without the sort.Strings call
sortKeys_unsorted(params, r) == mapRange(params, r)

\* sortKeys: the keys appended in iteration order, then sorted
sortKeys(params, r) == sortStrings(mapRange(params, r))

\* the loop of escapeParams over the sorted keys
RECURSIVE escapeParamsLoop(_, _, _, _)
escapeParamsLoop(params, keys, i, paramString) ==
  IF i > Len(keys) THEN paramString
  ELSE escapeParamsLoop(params, keys, i + 1,
         (IF i > 1 THEN paramString \o S_Amp ELSE paramString)
           \o escape(keys[i]) \o S_Eq \o escape(params.kv[keys[i]]))

escapeParamsSorted(params, keys) == escapeParamsLoop(params, keys, 1, S_Empty)

escapeParams(params, r) == Strict2(escapeParamsSorted, params, sortKeys(params, r))

\* createBaseString with the parameter string escaped only once
createBaseString_escapeOnce(s, params, r) ==
  s.Method \o S_Amp \o escape(s.URL) \o S_Amp \o escapeParams(params, r)

\* createBaseString: method & escape(URL) & escape(escapeParams(params))
createBaseString(s, params, r) ==
  LET baseString == s.Method \o S_Amp \o escape(s.URL) \o S_Amp
  IN baseString \o escape(escapeParams(params, r))

\* ------------------------------------------------------- SpecEscape: escape

\* boundary bytes of every unreserved range, the separators, and high bytes
EscapeBytes ==
  { 0, 32, 37, 38, 45, 46, 47, 48, 57, 58, 61, 64, 65, 90, 91, 95, 96, 97,
    122, 123, 126, 127, 163, 194, 255 }

RECURSIVE StringsUpTo(_, _)
StringsUpTo(B, n) ==
  IF n = 0 THEN { S_Empty }
  ELSE LET shorter == StringsUpTo(B, n - 1)
       IN shorter \cup { Append(s, b) : s \in shorter, b \in B }

NoCall == [op |-> "none"]
NoRet == [op |-> "none"]
NoSent == [valid |-> FALSE]
NilMap == [isNil |-> TRUE, kv |-> [k \in {} |-> S_Empty]]
EmptyMap == [isNil |-> FALSE, kv |-> [k \in {} |-> S_Empty]]

InitEscape ==
  /\ Form = NilMap
  /\ \E s \in StringsUpTo(EscapeBytes, MaxLen) : call = [op |-> "input", in |-> s]
  /\ ret = NoRet
  /\ ncalls = 0
  /\ sent = NoSent

Escape ==
  /\ call.op = "input"
  /\ call' = [op |-> "escape", in |-> call.in]
  /\ ret' = [op |-> "escape", str |-> escape(call.in)]
  /\ UNCHANGED <<Form, ncalls, sent>>

NextEscape == Escape

SpecEscape == InitEscape /\ [][NextEscape]_vars

\* --------------------------------------------------- reference definitions
\* The OAuth rules written independently of the code's loops; the claims'
\* formulas compare the code's results with these.

Unreserved == (65..90) \cup (97..122) \cup (48..57) \cup {45, 46, 95, 126}

HexOf(n) == IF n < 10 THEN 48 + n ELSE 55 + n

PctByte(b) == IF b \in Unreserved THEN <<b>> ELSE <<37, HexOf(b \div 16), HexOf(b % 16)>>

RECURSIVE PctEncodeRange(_, _, _)
PctEncodeRange(s, lo, hi) ==
  IF lo > hi THEN S_Empty
  ELSE IF lo = hi THEN PctByte(s[lo])
  ELSE CHOOSE t \in { PctEncodeRange(s, lo, mid) \o PctEncodeRange(s, mid + 1, hi) :
                        mid \in { (lo + hi) \div 2 } } : TRUE

PctEncodeAll(s) == PctEncodeRange(s, 1, Len(s))

PctEncode(s) == Strict1(PctEncodeAll, s)

\* number of positions of s at which the byte string w occurs
Occurrences(w, s) ==
  Cardinality({ i \in 1..(Len(s) - Len(w) + 1) : SubSeq(s, i, i + Len(w) - 1) = w })

\* the output offset of input byte i: one per unreserved, three per other byte before it
OffsetOf(s, i) == (i - 1) + 2 * Cardinality({ j \in 1..(i - 1) : s[j] \notin Unreserved })

\* C7: escape copies each unreserved byte and replaces every other byte by '%'
\* and its two uppercase hexadecimal digits, in input order; so the output is
\* len(s) + 2 * (number of non-unreserved bytes) long and a string of
\* unreserved bytes is returned unchanged.
ThmC7_EscapePerByte ==
  call.op = "escape" =>
    LET s == call.in
        out == ret.str
    IN /\ Len(out) = Len(s) + 2 * Cardinality({ j \in 1..Len(s) : s[j] \notin Unreserved })
       /\ \A i \in 1..Len(s) :
            LET off == OffsetOf(s, i)
            IN IF s[i] \in Unreserved
               THEN out[off + 1] = s[i]
               ELSE /\ out[off + 1] = 37
                    /\ out[off + 2] = HexOf(s[i] \div 16)
                    /\ out[off + 3] = HexOf(s[i] % 16)
       /\ ((\A i \in 1..Len(s) : s[i] \in Unreserved) => out = s)

\* escape has run on a string that mixes '~' with a byte that needs escaping
WitC7_Mixed ==
  /\ call.op = "escape"
  /\ call.in = <<126, 255>>
  /\ ret.str = <<126, 37, 70, 70>>

\* byte-wise lexicographic order, stated positionally
BytewiseLess(a, b) ==
  \E i \in 1..(Len(b)) :
    /\ i <= Len(a) + 1
    /\ \A j \in 1..(i - 1) : a[j] = b[j]
    /\ (i = Len(a) + 1 \/ a[i] < b[i])

LeastKey(S) == CHOOSE k \in S : \A j \in S \ {k} : BytewiseLess(k, j)

\* key=value pairs, percent-encoded, ascending by unescaped key, joined by "&"
RECURSIVE CanonicalOver(_, _)
CanonicalOver(kv, S) ==
  IF S = {} THEN S_Empty
  ELSE LET k == LeastKey(S)
           pair == PctEncode(k) \o S_Eq \o PctEncode(kv[k])
       IN IF S = {k} THEN pair ELSE pair \o S_Amp \o CanonicalOver(kv, S \ {k})

Canonical(params) == CanonicalOver(params.kv, DOMAIN params.kv)

\* ------------------------------- SpecParams: escapeParams, createBaseString

\* keys whose byte order differs from their length-first and escaped orders
ParamKeys == { <<97>>, <<122>>, <<200>>, <<97, 38>>, <<97, 97>> }

ParamValues == { S_Empty, <<49, 32, 50>>, <<37, 61>> }

MapsOver(Keys, Values, n) ==
  UNION { { [isNil |-> FALSE, kv |-> f] : f \in [D -> Values] } :
            D \in { D \in SUBSET Keys : Cardinality(D) <= n } }

ParamMethods == { S_Empty, S_POST, <<80, 38, 84>> }

ParamURLs == { <<104, 116, 116, 112, 58, 47, 47, 101, 120, 97, 109, 112, 108, 101, 46, 99, 111, 109>>,
               <<104, 116, 116, 112, 58, 47, 47, 101, 46, 99, 111, 47, 112, 63, 113, 61, 49, 38, 114>> }

\* Signer{...}: the zero value of every field not given
ZeroSigner ==
  [Method |-> S_Empty, URL |-> S_Empty, Key |-> S_Empty, Secret |-> S_Empty,
   Body |-> S_Empty, Form |-> NilMap]

InitParams ==
  /\ Form = NilMap
  /\ \E m \in MapsOver(ParamKeys, ParamValues, MaxKeys) \cup {NilMap} :
       call = [op |-> "input", params |-> m]
  /\ ret = NoRet
  /\ ncalls = 0
  /\ sent = NoSent

EscapeParams ==
  /\ call.op = "input"
  /\ \E r \in 0..MaxOrder :
       /\ call' = [op |-> "escapeParams", params |-> call.params, r |-> r]
       /\ ret' = [op |-> "escapeParams", str |-> escapeParams(call.params, r)]
  /\ UNCHANGED <<Form, ncalls, sent>>

CreateBaseString ==
  /\ call.op = "input"
  /\ \E method \in ParamMethods, url \in ParamURLs, r \in 0..MaxOrder :
       LET s == [ZeroSigner EXCEPT !.Method = method, !.URL = url]
       IN /\ call' = [op |-> "createBaseString", s |-> s, params |-> call.params, r |-> r]
          /\ ret' = [op |-> "createBaseString", str |-> createBaseString(s, call.params, r)]
  /\ UNCHANGED <<Form, ncalls, sent>>

NextParams == EscapeParams \/ CreateBaseString

SpecParams == InitParams /\ [][NextParams]_vars

NumKeys(params) == Cardinality(DOMAIN params.kv)

\* C8: escapeParams emits one escape(key)=escape(value) pair per key, joined
\* by "&", ascending in the byte order of the unescaped keys, whatever order
\* the map was iterated in; the empty map gives the empty string.
ThmC8_CanonicalOrder ==
  call.op = "escapeParams" =>
    /\ ret.str = Canonical(call.params)
    /\ Occurrences(S_Eq, ret.str) = NumKeys(call.params)
    /\ Occurrences(S_Amp, ret.str) =
         (IF NumKeys(call.params) = 0 THEN 0 ELSE NumKeys(call.params) - 1)
    /\ (NumKeys(call.params) = 0 => ret.str = S_Empty)

\* escapeParams has run on {"z": "1 2", 0xC8: ""} iterated in descending key order
WitC8_UnsortedIteration ==
  /\ call.op = "escapeParams"
  /\ DOMAIN call.params.kv = { <<122>>, <<200>> }
  /\ mapRange(call.params, call.r) = << <<200>>, <<122>> >>
  /\ call.params.kv[<<122>>] = <<49, 32, 50>>
  /\ ret.str = <<122, 61, 49, 37, 50, 48, 50, 38, 37, 67, 56, 61>>

RECURSIVE encodeGroups(_)
encodeGroups(src) ==
  LET n == Len(src)
      ch(v) == encodeStd[(v % 64) + 1]
  IN IF n = 0 THEN S_Empty
     ELSE IF n = 1
       THEN LET v == src[1] * 65536
            IN <<ch(v \div 262144), ch(v \div 4096), 61, 61>>
     ELSE IF n = 2
       THEN LET v == src[1] * 65536 + src[2] * 256
            IN <<ch(v \div 262144), ch(v \div 4096), ch(v \div 64), 61>>
     ELSE LET v == src[1] * 65536 + src[2] * 256 + src[3]
          IN <<ch(v \div 262144), ch(v \div 4096), ch(v \div 64), ch(v)>>
               \o Strict1(encodeGroups, SubSeq(src, 4, n))

EncodeToString(src) == Strict1(encodeGroups, src)

\* strconv.FormatInt(n, 10)
RECURSIVE FormatInt(_)
FormatInt(n) ==
  IF n < 0 THEN <<45>> \o FormatInt(0 - n)
  ELSE IF n < 10 THEN <<48 + n>>
  ELSE Append(FormatInt(n \div 10), 48 + (n % 10))

\* Stand-in for the SHA-1 compression function: the polynomial
\* sum of (byte + 1) * x^(distance from the end) modulo p over the bytes lo..hi,
\* with x^(hi - lo + 1), so that two ranges combine into their concatenation.
polyJoin(l, r, p) == [h |-> (l.h * r.pw + r.h) % p, pw |-> (l.pw * r.pw) % p]

RECURSIVE poly(_, _, _, _, _)
polyHalves(data, lo, mid, hi, x, p) ==
  CHOOSE v \in { polyJoin(l, r, p) : l \in { poly(data, lo, mid, x, p) },
                                     r \in { poly(data, mid + 1, hi, x, p) } } : TRUE

poly(data, lo, hi, x, p) ==
  IF lo > hi THEN [h |-> 0, pw |-> 1]
  ELSE IF lo = hi THEN [h |-> (data[lo] + 1) % p, pw |-> x]
  ELSE CHOOSE v \in { polyHalves(data, lo, mid, hi, x, p) :
                        mid \in { (lo + hi) \div 2 } } : TRUE

\* the 20 digest bytes: two 15-bit sums a and b, then bytes derived from them
digestBytes(a, b) ==
  [i \in 1..20 |->
     LET j == (i - 1) % 4
         w == IF j = 0 THEN a % 256 ELSE IF j = 1 THEN a \div 256
              ELSE IF j = 2 THEN b % 256 ELSE b \div 256
     IN (w + 37 * ((i - 1) \div 4)) % 256]

digestOf(data) ==
  Strict2(digestBytes, poly(data, 1, Len(data), 31, 46337).h,
                       poly(data, 1, Len(data), 37, 46327).h)

\* sha1.New(); Write(data); Sum(nil)  (stand-in digest, 20 bytes)
sha1Sum(data) == Strict1(digestOf, data)

\* the key block of HMAC: the key, hashed when longer than the 64-byte block,
\* zero-padded to the block and combined with the pad (stand-in: the pad is
\* added to the key bytes instead of xor-ed)
hmacBlock(k, pad) == [i \in 1..64 |-> (IF i <= Len(k) THEN k[i] ELSE 0) + pad]

hmacKeyed(key, data) ==
  LET k == IF Len(key) > 64 THEN sha1Sum(key) ELSE key
  IN sha1Sum(hmacBlock(k, 92) \o sha1Sum(hmacBlock(k, 54) \o data))

\* hmac.New(sha1.New, key); Write(data); Sum(nil): H(opad-block, H(ipad-block, data))
hmacSHA1(key, data) == Strict2(hmacKeyed, key, data)

\* util.RandomString(s): rand.Read either fails or fills the s bytes, which are
\* then base64-encoded.  rnd is what rand.Read did: [err, bytes].
RandomString(s, rnd) ==
  IF rnd.err # "" THEN [str |-> S_Empty, err |-> rnd.err]
  ELSE [str |-> EncodeToString(SubSeq(rnd.bytes, 1, s)), err |-> ""]

\* net/http token bytes (a method must be a non-empty token)
isTokenByte(b) ==
  \/ (65 <= b /\ b <= 90) \/ (97 <= b /\ b <= 122) \/ (48 <= b /\ b <= 57)
  \/ b \in {33, 35, 36, 37, 38, 39, 42, 43, 45, 46, 94, 95, 96, 124, 126}

NilRequest ==
  [isNil |-> TRUE, Method |-> S_Empty, URL |-> S_Empty, Body |-> S_Empty, Header |-> <<>>]

\* http.NewRequest as far as the inputs of this model exercise it: an invalid
\* method or a control byte in the URL is rejected, anything else is built.
NewRequest(method, url, body) ==
  LET m == IF Len(method) = 0 THEN S_GET ELSE method
  IN IF \E i \in 1..Len(m) : ~isTokenByte(m[i])
       THEN [req |-> NilRequest, err |-> "net/http: invalid method"]
     ELSE IF \E i \in 1..Len(url) : url[i] < 32 \/ url[i] = 127
       THEN [req |-> NilRequest, err |-> "net/url: invalid control character in URL"]
     ELSE [req |-> [isNil |-> FALSE, Method |-> m, URL |-> url, Body |-> body,
                    Header |-> <<>>],
           err |-> ""]

\* request.Header.Add(name, value)
HeaderAdd(req, name, value) == [req EXCEPT !.Header = Append(@, <<name, value>>)]

\* -------------------------------------------------------------- the Signer

\* NewSigner
NewSigner(method, url, key, secret, body, form) ==
  [Method |-> method, URL |-> url, Body |-> body, Form |-> form, Key |-> key,
   Secret |-> secret]

\* params[k] = v on a map made with make or passed in non-empty
mapSet(params, k, v) == [params EXCEPT !.kv = (k :> v) @@ params.kv]

\* delete(params, k)
mapDelete(params, k) ==
  [params EXCEPT !.kv = [x \in (DOMAIN params.kv) \ {k} |-> params.kv[x]]]

\* params[k] read: the zero value "" for an absent key
mapGet(params, k) == IF k \in DOMAIN params.kv THEN params.kv[k] ELSE S_Empty

\* the five defaults written into params once the nonce n is there
defaultOAuthParams(s, params, n, now) ==
  IF n.err # "" THEN [err |-> n.err, params |-> params]
  ELSE [err |-> "",
        params |->
          mapSet(mapSet(mapSet(mapSet(mapSet(params,
            K_version, S_1_0),
            K_nonce, n.str),
            K_timestamp, FormatInt(now)),
            K_consumer_key, s.Key),
            K_signature_method, S_HMAC_SHA1)]

\* addDefaultOAuthParams: the error of the nonce source, or the five defaults
\* written into params.  now is time.Now().Unix().
addDefaultOAuthParams(s, params, rnd, now) ==
  LET withNonce(n) == defaultOAuthParams(s, params, n, now)
  IN Strict1(withNonce, RandomString(15, rnd))

\* signRequest: base64(HMAC-SHA1(Secret & "&", base string))
signRequest(s, params, r) ==
  LET baseString == createBaseString(s, params, r)
      secret == s.Secret \o S_Amp
  IN EncodeToString(hmacSHA1(secret, baseString))

\* bodyHash: base64(SHA-1(Body))
bodyHash(s) == EncodeToString(sha1Sum(s.Body))

\* the range loop of BuildAuthHeader over the keys in iteration order
RECURSIVE authHeaderLoop(_, _, _, _)
authHeaderLoop(params, keys, i, authHeader) ==
  IF i > Len(keys) THEN authHeader
  ELSE authHeaderLoop(params, keys, i + 1,
         authHeader \o S_Comma \o escape(keys[i]) \o S_Eq \o S_Quote
           \o escape(params.kv[keys[i]]) \o S_Quote)

\* params["oauth_signature"] = s.signRequest(params)
withSignature(s, params, r) ==
  LET set(p) == mapSet(p, K_signature, signRequest(s, p, r))
  IN Strict1(set, params)

\* the header string of the finished params, iterated in order rh
authHeaderOf(params, rh) ==
  LET emit(p, keys) == authHeaderLoop(p, keys, 1, S_Realm)
  IN Strict2(emit, params, mapRange(params, rh))

\* BuildAuthHeader with the body hash added after the signature is computed
BuildAuthHeader_hashAfterSign(s, rnd, now, r, rh) ==
  LET p1 == addDefaultOAuthParams(s, EmptyMap, rnd, now).params
      p2 == withSignature(s, p1, r)
      p3 == mapSet(p2, K_body_hash, bodyHash(s))
  IN [str |-> authHeaderOf(p3, rh), err |-> ""]

\* BuildAuthHeader: the result of addDefaultOAuthParams is not looked at
BuildAuthHeader(s, rnd, now, r, rh) ==
  LET p1 == addDefaultOAuthParams(s, EmptyMap, rnd, now).params
      p2 == mapSet(p1, K_body_hash, bodyHash(s))
      p3 == withSignature(s, p2, r)
  IN [str |-> authHeaderOf(p3, rh), err |-> ""]

ErrNoForm == "No form provided"

\* the end of BuildAuthForm, once addDefaultOAuthParams has returned d
signedForm(s, d, r) ==
  LET emit(signed) == [str |-> escapeParams(signed, r), err |-> "", Form |-> signed]
  IN IF d.err # "" THEN [str |-> S_Empty, err |-> d.err, Form |-> s.Form]
     ELSE Strict1(emit, withSignature(s, d.params, r))

\* BuildAuthForm without the length check
BuildAuthForm_noLengthCheck(s, rnd, now, r) ==
  LET rest(d) == signedForm(s, d, r)
  IN Strict1(rest, addDefaultOAuthParams(s, [s.Form EXCEPT !.isNil = FALSE], rnd, now))

\* BuildAuthForm: Form is the map s.Form refers to as the call leaves it
BuildAuthForm(s, rnd, now, r) ==
  LET rest(d) == signedForm(s, d, r)
  IN IF Cardinality(DOMAIN s.Form.kv) < 1
       THEN [str |-> S_Empty, err |-> ErrNoForm, Form |-> s.Form]
     ELSE Strict1(rest, addDefaultOAuthParams(s, s.Form, rnd, now))

\* the end of SignedBodyRequest, once the request and the header are there
signedBody(built, h) ==
  IF h.err # ""
    THEN [req |-> NilRequest, err |-> h.err, panic |-> FALSE, builderErr |-> built.err]
  ELSE IF built.req.isNil
    THEN [req |-> NilRequest, err |-> "", panic |-> TRUE, builderErr |-> built.err]
  ELSE [req |-> HeaderAdd(built.req, "Authorization", h.str), err |-> "",
        panic |-> FALSE, builderErr |-> built.err]

\* SignedBodyRequest: the error of http.NewRequest is dropped; a nil request is
\* dereferenced by request.Header.Add, which panics
SignedBodyRequest(method, url, key, secret, body, rnd, now, r, rh) ==
  LET m == IF Len(method) = 0 THEN S_POST ELSE method
      s == NewSigner(m, url, key, secret, body, NilMap)
  IN Strict2(signedBody, NewRequest(m, url, body), BuildAuthHeader(s, rnd, now, r, rh))

\* the end of SignedFormRequest, once BuildAuthForm has returned f
signedFormRequest(url, f) ==
  LET finish(built) ==
        IF built.err # ""
          THEN [req |-> NilRequest, err |-> built.err, panic |-> FALSE,
                builderErr |-> built.err, Form |-> f.Form]
        ELSE [req |-> HeaderAdd(built.req, "Content-Type",
                                "application/x-www-form-urlencoded"),
              err |-> "", panic |-> FALSE, builderErr |-> "", Form |-> f.Form]
  IN IF f.err # ""
       THEN [req |-> NilRequest, err |-> f.err, panic |-> FALSE, builderErr |-> "",
             Form |-> f.Form]
     ELSE Strict1(finish, NewRequest(S_POST, url, f.str))

\* SignedFormRequest: Form is the caller's map as the call leaves it
SignedFormRequest(url, key, secret, params, rnd, now, r) ==
  LET s == NewSigner(S_POST, url, key, secret, S_Empty, params)
  IN Strict2(signedFormRequest, url, BuildAuthForm(s, rnd, now, r))

\* url.Values.Get: the first value of the key, "" when there is none
valuesGet(form, k) ==
  IF k \in DOMAIN form /\ Len(form[k]) > 0 THEN form[k][1] ELSE S_Empty

\* ValidateSignature: Signer{URL, Secret} leaves Method at its zero value ""
ValidateSignature(url, form, secret, r) ==
  LET s == [ZeroSigner EXCEPT !.URL = url, !.Secret = secret]
      params == [isNil |-> FALSE, kv |-> [k \in DOMAIN form |-> valuesGet(form, k)]]
      in == mapGet(params, K_signature)
      gen == signRequest(s, mapDelete(params, K_signature), r)
  IN in = gen

\* ------------------------------------------------ Spec: the entry points

URL_ok == <<104, 116, 116, 112, 58, 47, 47, 101, 120, 97, 109, 112, 108, 101, 46, 99, 111, 109>>  \* "http://example.com"
URL_bad == <<104, 116, 116, 112, 58, 47, 47, 101, 46, 99, 111, 47, 127>>  \* "http://e.co/\x7f"
URLs == { URL_ok, URL_bad }

Methods == { S_Empty, S_POST, S_BadMethod }
\* methods of a Signer built for BuildAuthForm: "POST", or left at its zero value
FormMethods == { S_POST, S_Empty }

Key_1234 == <<49, 50, 51, 52>>                                   \* "1234"
Keys == { Key_1234, <<97, 98, 99, 49, 50, 51>> }                 \* "1234", "abc123"

Secret_secret == <<115, 101, 99, 114, 101, 116>>                 \* "secret"
Secrets == { Secret_secret, <<119, 114, 111, 110, 103, 83, 101, 99, 114, 101, 116>> }  \* "secret", "wrongSecret"

Bodies == { S_Empty, <<116, 101, 115, 116, 32, 98, 111, 100, 121>> }  \* "", "test body"

\* what rand.Read can do: fail, or fill the buffer
RandFails == [err |-> "rand: read failed", bytes |-> S_Empty]
RandHigh == [err |-> "", bytes |-> [i \in 1..15 |-> 251]]          \* nonce "+/v7+/v7..."
RandCount == [err |-> "", bytes |-> [i \in 1..15 |-> i - 1]]       \* nonce "AAECAwQF..."
RandReads == { RandFails, RandHigh, RandCount }
FormRandReads == { RandFails, RandHigh }

Times == { 0, 1478300000 }
FormTimes == { 1478300000 }

\* the parameter maps a caller starts from: empty, plain, holding a stale
\* oauth_nonce, holding a stale oauth_signature
InitialForms ==
  { EmptyMap,
    [isNil |-> FALSE, kv |-> (<<99, 111, 110, 116, 101, 120, 116, 95, 105, 100>> :> <<49, 50, 51, 52, 53>>)],
    [isNil |-> FALSE, kv |-> (<<114, 111, 108, 101, 115>> :> <<85, 110, 105, 116, 32, 84, 101, 115, 116>>)
                               @@ (K_nonce :> <<115, 116, 97, 108, 101>>)],
    [isNil |-> FALSE, kv |-> (<<114, 111, 108, 101, 115>> :> <<85, 110, 105, 116, 32, 84, 101, 115, 116>>)
                               @@ (K_signature :> <<115, 116, 97, 108, 101>>)] }

Init ==
  /\ Form \in InitialForms
  /\ call = NoCall
  /\ ret = NoRet
  /\ ncalls = 0
  /\ sent = NoSent

Result(op, str, err, req, ok, panic, builderErr) ==
  [op |-> op, str |-> str, err |-> err, req |-> req, ok |-> ok, panic |-> panic,
   builderErr |-> builderErr]

\* The range loops run in an unspecified order.  The header loop's order shows
\* in the header, so every modelled order is tried there; the loop of sortKeys
\* is followed by sort.Strings, and the entry points run it in one order per
\* call (all orders are tried in SpecParams).
OrderOfCall == ncalls % (MaxOrder + 1)

\* s.BuildAuthHeader() on a Signer without a form.  The body flow takes no
\* map: it is run by a caller whose map is empty and was never signed.
DoBuildAuthHeader ==
  /\ call.op = "none"
  /\ ncalls = 0
  /\ Form = EmptyMap
  /\ \E method \in Methods, url \in URLs, key \in Keys, secret \in Secrets,
        body \in Bodies, rnd \in RandReads, now \in Times, rh \in 0..MaxOrder :
       \E s \in { NewSigner(method, url, key, secret, body, NilMap) } :
       \E h \in { BuildAuthHeader(s, rnd, now, rh, rh) } :
          /\ call' = [op |-> "BuildAuthHeader", s |-> s, rnd |-> rnd, now |-> now]
          /\ ret' = Result("BuildAuthHeader", h.str, h.err, NilRequest, FALSE, FALSE, "")
  /\ UNCHANGED <<Form, ncalls, sent>>

DoSignedBodyRequest ==
  /\ call.op = "none"
  /\ ncalls = 0
  /\ Form = EmptyMap
  /\ \E method \in Methods, url \in URLs, key \in Keys, secret \in Secrets,
        body \in Bodies, rnd \in RandReads, now \in Times, rh \in 0..MaxOrder :
       \E q \in { SignedBodyRequest(method, url, key, secret, body, rnd, now, rh, rh) } :
          /\ call' = [op |-> "SignedBodyRequest", method |-> method, url |-> url,
                      key |-> key, secret |-> secret, body |-> body, rnd |-> rnd,
                      now |-> now]
          /\ ret' = Result("SignedBodyRequest", S_Empty, q.err, q.req, FALSE, q.panic,
                           q.builderErr)
  /\ UNCHANGED <<Form, ncalls, sent>>

\* what is known of the map after a form call: who signed it, or nothing when
\* the call changed it without completing
SentAfter(op, s, err, after) ==
  IF err = "" THEN [valid |-> TRUE, op |-> op, method |-> s.Method, url |-> s.URL,
                    secret |-> s.Secret]
  ELSE IF after # Form THEN NoSent
  ELSE sent

\* s.BuildAuthForm() on a Signer holding the caller's map, or a nil map
DoBuildAuthForm ==
  /\ call.op = "none"
  /\ ncalls < MaxCalls
  /\ \E method \in FormMethods, secret \in Secrets, rnd \in FormRandReads,
        now \in FormTimes, ref \in {"shared", "nil"} :
       \E s \in { NewSigner(method, URL_ok, Key_1234, secret, S_Empty,
                              IF ref = "shared" THEN Form ELSE NilMap) } :
       \E f \in { BuildAuthForm(s, rnd, now, OrderOfCall) } :
       \E after \in { IF ref = "shared" THEN f.Form ELSE Form } :
          /\ call' = [op |-> "BuildAuthForm", s |-> s, ref |-> ref, shared |-> Form,
                      rnd |-> rnd, now |-> now]
          /\ ret' = Result("BuildAuthForm", f.str, f.err, NilRequest, FALSE, FALSE, "")
          /\ Form' = after
          /\ sent' = SentAfter("BuildAuthForm", s, f.err, after)
  /\ ncalls' = ncalls + 1

DoSignedFormRequest ==
  /\ call.op = "none"
  /\ ncalls < MaxCalls
  /\ \E url \in URLs, secret \in Secrets, rnd \in FormRandReads, now \in FormTimes,
        ref \in {"shared", "nil"} :
       \E params \in { IF ref = "shared" THEN Form ELSE NilMap } :
       \E s \in { NewSigner(S_POST, url, Key_1234, secret, S_Empty, params) } :
       \E q \in { SignedFormRequest(url, Key_1234, secret, params, rnd, now, OrderOfCall) } :
       \E after \in { IF ref = "shared" THEN q.Form ELSE Form } :
          /\ call' = [op |-> "SignedFormRequest", s |-> s, ref |-> ref, shared |-> Form,
                      rnd |-> rnd, now |-> now]
          /\ ret' = Result("SignedFormRequest", S_Empty, q.err, q.req, FALSE, q.panic,
                           q.builderErr)
          /\ Form' = after
          /\ sent' = SentAfter("SignedFormRequest", s, q.err, after)
  /\ ncalls' = ncalls + 1

\* url.Values with one value per key, as a receiver parses the emitted parameters
Values(params) == [k \in DOMAIN params.kv |-> <<params.kv[k]>>]

\* the forms a receiver is handed: the emitted parameters, the same without
\* oauth_signature, and the same with a field added in transit
IncomingForms ==
  { Values(Form),
    Values(mapDelete(Form, K_signature)),
    Values(mapSet(Form, <<120>>, <<49>>)) }

DoValidateSignature ==
  /\ call.op = "none"
  /\ \E url \in URLs, secret \in Secrets, form \in IncomingForms :
       /\ call' = [op |-> "ValidateSignature", url |-> url, form |-> form,
                   secret |-> secret]
       /\ ret' = Result("ValidateSignature", S_Empty, "", NilRequest,
                        ValidateSignature(url, form, secret, OrderOfCall), FALSE, "")
  /\ UNCHANGED <<Form, ncalls, sent>>

\* the caller has taken the result of its call and is ready to make the next
Return ==
  /\ call.op # "none"
  /\ call' = NoCall
  /\ ret' = NoRet
  /\ UNCHANGED <<Form, ncalls, sent>>

Next ==
  \/ DoBuildAuthHeader
  \/ DoSignedBodyRequest
  \/ DoBuildAuthForm
  \/ DoSignedFormRequest
  \/ DoValidateSignature
  \/ Return

Spec == Init /\ [][Next]_vars

\* ------------------------------------------------------ claims about Spec

\* the signature the OAuth rules give: base64(HMAC-SHA1(secret & "&",
\* method & "&" & encode(url) & "&" & encode(canonical(params))))
RefSign(method, url, secret, params) ==
  EncodeToString(hmacSHA1(secret \o S_Amp,
    method \o S_Amp \o PctEncode(url) \o S_Amp \o PctEncode(Canonical(params))))

FormOps == { "BuildAuthForm", "SignedFormRequest" }

\* the parameters a receiver reads from a form, oauth_signature removed
UnsignedParams(form) ==
  [isNil |-> FALSE,
   kv |-> [k \in (DOMAIN form) \ {K_signature} |-> valuesGet(form, k)]]

\* C1: a form signed by SignedFormRequest validates with the same URL and
\* secret, and does not validate with another secret.
CexC1_RoundTrip ==
  ( /\ call.op = "ValidateSignature"
    /\ sent.valid
    /\ sent.op = "SignedFormRequest"
    /\ call.form = Values(Form)
    /\ call.url = sent.url )
  => (ret.ok = (call.secret = sent.secret))

\* C2: ValidateSignature is true exactly when the form's oauth_signature is the
\* signature, under the given secret, of the base string with method "POST",
\* the given url and the form's other parameters; it never reports an error.
CexC2_ValidatePost ==
  call.op = "ValidateSignature" =>
    /\ ret.err = ""
    /\ ret.ok = (valuesGet(call.form, K_signature)
                   = RefSign(S_POST, call.url, call.secret, UnsignedParams(call.form)))

\* what ValidateSignature computes: the same with the method left empty
ValidateEmptyMethod ==
  call.op = "ValidateSignature" =>
    ret.ok = (valuesGet(call.form, K_signature)
                = RefSign(S_Empty, call.url, call.secret, UnsignedParams(call.form)))

\* the nonce source was consulted by the call and failed
NonceFailed ==
  /\ call.op \in { "BuildAuthHeader", "SignedBodyRequest" } \cup FormOps
  /\ call.rnd.err # ""
  /\ (call.op \in FormOps => NumKeys(call.s.Form) >= 1)

\* C3: when the nonce source fails, the entry point returns that error and no
\* header, form or request.
CexC3_NonceFailureAborts ==
  NonceFailed =>
    /\ ret.err = call.rnd.err
    /\ ret.str = S_Empty
    /\ ret.req.isNil
    /\ ~ret.panic

\* C4: BuildAuthForm / SignedFormRequest on an empty or nil map return the
\* "No form provided" error, no form and no request, and leave the map as it
\* was; on a non-empty map with a working nonce source they do not return it.
ThmC4_EmptyForm ==
  call.op \in FormOps =>
    IF NumKeys(call.s.Form) = 0
      THEN /\ ret.err = ErrNoForm
           /\ ret.str = S_Empty
           /\ ret.req.isNil
           /\ Form = call.shared
      ELSE (call.rnd.err = "" => ret.err # ErrNoForm)

\* SignedFormRequest has been called on the caller's empty (non-nil) map
WitC4_EmptyMap ==
  /\ call.op = "SignedFormRequest"
  /\ call.ref = "shared"
  /\ call.shared = EmptyMap
  /\ call.rnd.err = ""
  /\ ret.err = ErrNoForm
  /\ Form = EmptyMap

\* C5: when the HTTP request builder rejects the method or URL, the entry point
\* returns that error and a nil request instead of using the unbuilt request.
CexC5_BuilderErrorPropagates ==
  ( /\ call.op \in { "SignedBodyRequest", "SignedFormRequest" }
    /\ ret.builderErr # "" )
  => /\ ret.err = ret.builderErr
     /\ ret.req.isNil
     /\ ~ret.panic

\* one segment of the header: ,key="encoded value"
Segment(k, v) == S_Comma \o k \o S_Eq \o S_Quote \o PctEncode(v) \o S_Quote

\* the six parameters BuildAuthHeader signs, from the call's inputs
SixParams(s, rnd, now) ==
  [isNil |-> FALSE,
   kv |-> (K_version :> S_1_0)
          @@ (K_nonce :> EncodeToString(rnd.bytes))
          @@ (K_timestamp :> FormatInt(now))
          @@ (K_consumer_key :> s.Key)
          @@ (K_signature_method :> S_HMAC_SHA1)
          @@ (K_body_hash :> EncodeToString(sha1Sum(s.Body)))]

\* the segments a header must consist of
SevenSegments(s, six) ==
  { Segment(k, six.kv[k]) : k \in DOMAIN six.kv }
    \cup { Segment(K_signature, RefSign(s.Method, s.URL, s.Secret, six)) }

\* the pieces of rest that start at a "," and run to the next "," or the end
CommaPieces(rest) ==
  LET commas == { i \in 1..Len(rest) : rest[i] = 44 }
      end(i) == IF \E j \in commas : j > i
                THEN (CHOOSE j \in commas : j > i /\ \A m \in commas : m > i => j <= m) - 1
                ELSE Len(rest)
  IN [n |-> Cardinality(commas), segs |-> { SubSeq(rest, i, end(i)) : i \in commas }]

\* C9: with a working nonce source the header is `OAuth realm=""` followed by
\* exactly one ,key="escapedValue" segment for each of the seven parameters,
\* in any order, the oauth_signature being the signature over the other six
\* under the Signer's method, URL and secret.
ThmC9_HeaderSegments ==
  (call.op = "BuildAuthHeader" /\ call.rnd.err = "") =>
    /\ ret.err = ""
    /\ SubSeq(ret.str, 1, Len(S_Realm)) = S_Realm
    /\ \A rest \in { SubSeq(ret.str, Len(S_Realm) + 1, Len(ret.str)) } :
       \A pieces \in { CommaPieces(rest) } :
       \A six \in { SixParams(call.s, call.rnd, call.now) } :
         /\ rest[1] = 44
         /\ pieces.n = 7
         /\ pieces.segs = SevenSegments(call.s, six)

\* BuildAuthHeader has run with method POST on a non-empty body and a nonce
\* holding "+" and "/", which the header carries escaped
WitC9_EscapedNonce ==
  /\ call.op = "BuildAuthHeader"
  /\ call.rnd = RandHigh
  /\ call.s.Method = S_POST
  /\ Len(call.s.Body) > 0
  /\ Occurrences(K_nonce \o <<61, 34, 37, 50, 66, 37, 50, 70, 118, 55>>, ret.str) = 1

\* C10: after a successful BuildAuthForm / SignedFormRequest the emitted
\* oauth_signature is the signature (same method, URL, secret) over the emitted
\* parameters without oauth_signature, also on a map signed before or holding
\* an oauth_signature already.
CexC10_SignatureExcludesItself ==
  ( /\ call.op \in FormOps
    /\ call.ref = "shared"
    /\ ret.err = "" )
  => mapGet(Form, K_signature)
       = RefSign(call.s.Method, call.s.URL, call.s.Secret, mapDelete(Form, K_signature))

\* what BuildAuthForm computes: the signature covers the map as it stood
\* before oauth_signature was written, a stale oauth_signature included
SignatureCoversPriorMap ==
  ( /\ call.op \in FormOps
    /\ call.ref = "shared"
    /\ ret.err = "" )
  => mapGet(Form, K_signature)
       = RefSign(call.s.Method, call.s.URL, call.s.Secret,
           [Form EXCEPT !.kv = [k \in (DOMAIN Form.kv) \ ({K_signature} \ DOMAIN call.shared.kv)
                                   |-> IF k = K_signature THEN call.shared.kv[k]
                                       ELSE Form.kv[k]]])

\* a form passes ValidateSignature only if it is the map as a Signer with an
\* empty method signed it, checked with that Signer's URL and secret
ValidatesOnlyEmptyMethod ==
  (call.op = "ValidateSignature" /\ ret.ok) =>
    /\ sent.valid
    /\ sent.method = S_Empty
    /\ call.url = sent.url
    /\ call.secret = sent.secret
    /\ call.form = Values(Form)

\* a form signed with an empty method has passed ValidateSignature
ValidatedOnce == call.op = "ValidateSignature" /\ ret.ok

====
